---- MODULE Spec2Model ----
(***************************************************************************)
(* Model of course-scheduler-web/public/main.py: a Pyodide module with a   *)
(* top-level banner print and two functions, greet and                     *)
(* get_initial_courses, called by a browser host.                          *)
(*                                                                         *)
(* Python strings built by greet are sequences of one-character strings.   *)
(* Messages on stdout and the course fields are atomic strings.            *)
(* credited_units is a float with one decimal; it is kept in tenths        *)
(* (3.0 is 30, 1.0 is 10).                                                 *)
(***************************************************************************)
EXTENDS Integers, Sequences, FiniteSets, TLC

\* ---- bounds of the model ------------------------------------------------
MaxNameLen == 2
MaxSteps == 3
MutatedId == 7

\* ---- names the host passes to greet -------------------------------------
Alphabet == {"A", "d", "a"}

Ada == <<"A", "d", "a">>

RECURSIVE StringsUpTo(_)
StringsUpTo(n) ==
    IF n = 0 THEN {<<>>}
    ELSE LET shorter == StringsUpTo(n - 1)
         IN  shorter \cup {Append(s, c) : s \in {t \in shorter : Len(t) = n - 1}, c \in Alphabet}

Names == StringsUpTo(MaxNameLen) \cup {Ada}

\* ---- main.py ------------------------------------------------------------
Banner == "Python main.py loaded successfully via Pyodide!"

Diag == "Python: get_initial_courses called"

\* print(msg): one line appended to stdout
print(o, msg) == Append(o, msg)

\* the literal text of the f-string before and after the replacement field
HelloPart_nocomma == <<"H", "e", "l", "l", "o", " ">>
HelloPart == <<"H", "e", "l", "l", "o", ",", " ">>

FromPart == <<",", " ", "f", "r", "o", "m", " ", "P", "y", "t", "h", "o", "n", "!">>

ToLower(c) == IF c = "A" THEN "a" ELSE c

\* {name}: format(name, "") of a str yields its characters, one by one
FormatValue_lower(name) == [i \in 1..Len(name) |-> ToLower(name[i])]
FormatValue_first(name) == [i \in 1..(IF Len(name) > 1 THEN 1 ELSE Len(name)) |-> name[i]]
FormatValue(name) == [i \in 1..Len(name) |-> name[i]]

\* the f-string joins its pieces left to right
RECURSIVE BuildString(_)
BuildString(pieces) ==
    IF pieces = <<>> THEN <<>>
    ELSE Head(pieces) \o BuildString(Tail(pieces))

\* def greet(name): the outcome of one call
greet_index0(name) ==
    IF Len(name) = 0 THEN [status |-> "error", kind |-> "IndexError", value |-> <<>>]
    ELSE [status |-> "ok", kind |-> "str", value |-> BuildString(<<HelloPart, FormatValue(name), FromPart>>)]
greet(name) ==
    [status |-> "ok", kind |-> "str", value |-> BuildString(<<HelloPart, FormatValue(name), FromPart>>)]

\* the list literal returned by get_initial_courses
InitialCourses_sameid ==
    << [id |-> 1, subject |-> "TEST101", subject_title |-> "Introduction to Testing", credited_units |-> 30],
       [id |-> 1, subject |-> "PYD200", subject_title |-> "Pyodide Basics", credited_units |-> 10] >>
InitialCourses ==
    << [id |-> 1, subject |-> "TEST101", subject_title |-> "Introduction to Testing", credited_units |-> 30],
       [id |-> 2, subject |-> "PYD200", subject_title |-> "Pyodide Basics", credited_units |-> 10] >>

\* ---- state --------------------------------------------------------------
VARIABLES
    pc,         \* where the interpreter is: a line of main.py, "ready", or "import_error"
    defined,    \* names bound in the module's globals
    out,        \* stdout, the lines printed so far
    dicts,      \* heap of dict objects; an address is an index
    lists,      \* heap of list objects, each a sequence of dict addresses
    calls,      \* number of invocations of each function so far
    mutations,  \* number of host mutations of returned objects so far
    lastOp,     \* the host's last completed operation
    lastArg,    \* argument of the last greet call
    ret,        \* outcome of the last completed call
    returned,   \* per completed get_initial_courses call: the list's address and its content at return
    greeted     \* <<name, result>> of every greet call so far

vars == <<pc, defined, out, dicts, lists, calls, mutations, lastOp, lastArg, ret, returned, greeted>>

NoRet == [status |-> "none", kind |-> "none", value |-> <<>>]

\* the content of a list object: its dicts, in order
Deref(ls, ds, ref) == [i \in 1..Len(ls[ref]) |-> ds[ls[ref][i]]]

Steps == calls.greet + calls.get_initial_courses + mutations

Init ==
    /\ pc = "line1"
    /\ defined = {}
    /\ out = <<>>
    /\ dicts = <<>>
    /\ lists = <<>>
    /\ calls = [greet |-> 0, get_initial_courses |-> 0]
    /\ mutations = 0
    /\ lastOp = "none"
    /\ lastArg = <<>>
    /\ ret = NoRet
    /\ returned = <<>>
    /\ greeted = {}

\* ---- loading the module -------------------------------------------------
\* line 1: import js, inside Pyodide
load_import_js ==
    /\ pc = "line1"
    /\ pc' = "line3"
    /\ defined' = defined \cup {"js"}
    /\ UNCHANGED <<out, dicts, lists, calls, mutations, lastOp, lastArg, ret, returned, greeted>>

\* line 1: import js, where no js module exists: ModuleNotFoundError ends the load
load_import_js_fails ==
    /\ pc = "line1"
    /\ pc' = "import_error"
    /\ UNCHANGED <<defined, out, dicts, lists, calls, mutations, lastOp, lastArg, ret, returned, greeted>>

\* line 3: print(banner)
load_print_banner_skipped ==
    /\ pc = "line3"
    /\ pc' = "line5"
    /\ UNCHANGED <<out, defined, dicts, lists, calls, mutations, lastOp, lastArg, ret, returned, greeted>>
load_print_banner ==
    /\ pc = "line3"
    /\ out' = print(out, Banner)
    /\ pc' = "line5"
    /\ UNCHANGED <<defined, dicts, lists, calls, mutations, lastOp, lastArg, ret, returned, greeted>>

\* line 5: def greet
load_def_greet ==
    /\ pc = "line5"
    /\ defined' = defined \cup {"greet"}
    /\ pc' = "line9"
    /\ UNCHANGED <<out, dicts, lists, calls, mutations, lastOp, lastArg, ret, returned, greeted>>

\* line 9: def get_initial_courses; the module is loaded
load_def_get_initial_courses ==
    /\ pc = "line9"
    /\ defined' = defined \cup {"get_initial_courses"}
    /\ pc' = "ready"
    /\ UNCHANGED <<out, dicts, lists, calls, mutations, lastOp, lastArg, ret, returned, greeted>>

\* ---- the host calls greet(name) -----------------------------------------
host_calls_greet_printing ==
    /\ pc = "ready"
    /\ "greet" \in defined
    /\ Steps < MaxSteps
    /\ \E name \in Names :
        /\ lastArg' = name
        /\ ret' = greet(name)
        /\ greeted' = greeted \cup {<<name, greet(name)>>}
    /\ out' = print(out, Diag)
    /\ calls' = [calls EXCEPT !.greet = @ + 1]
    /\ lastOp' = "greet"
    /\ UNCHANGED <<pc, defined, dicts, lists, mutations, returned>>
host_calls_greet ==
    /\ pc = "ready"
    /\ "greet" \in defined
    /\ Steps < MaxSteps
    /\ \E name \in Names :
        /\ lastArg' = name
        /\ ret' = greet(name)
        /\ greeted' = greeted \cup {<<name, greet(name)>>}
    /\ calls' = [calls EXCEPT !.greet = @ + 1]
    /\ lastOp' = "greet"
    /\ UNCHANGED <<pc, defined, out, dicts, lists, mutations, returned>>

\* ---- the host calls get_initial_courses() -------------------------------
host_calls_get_initial_courses ==
    /\ pc = "ready"
    /\ "get_initial_courses" \in defined
    /\ Steps < MaxSteps
    /\ calls' = [calls EXCEPT !.get_initial_courses = @ + 1]
    /\ pc' = "line12"
    /\ UNCHANGED <<defined, out, dicts, lists, mutations, lastOp, lastArg, ret, returned, greeted>>

\* line 12: print(diagnostic)
get_initial_courses_print_skipped ==
    /\ pc = "line12"
    /\ pc' = "line13"
    /\ UNCHANGED <<out, defined, dicts, lists, calls, mutations, lastOp, lastArg, ret, returned, greeted>>
get_initial_courses_print ==
    /\ pc = "line12"
    /\ out' = print(out, Diag)
    /\ pc' = "line13"
    /\ UNCHANGED <<defined, dicts, lists, calls, mutations, lastOp, lastArg, ret, returned, greeted>>

\* lines 13-16: the literal builds two new dicts and a new list; return it
get_initial_courses_return_cached ==
    /\ pc = "line13"
    /\ IF lists = <<>>
       THEN /\ dicts' = dicts \o InitialCourses
            /\ lists' = Append(lists, <<Len(dicts) + 1, Len(dicts) + 2>>)
       ELSE UNCHANGED <<dicts, lists>>
    /\ ret' = [status |-> "ok", kind |-> "list", value |-> 1]
    /\ returned' = Append(returned, [ref |-> 1, val |-> Deref(lists', dicts', 1)])
    /\ lastOp' = "get_initial_courses"
    /\ pc' = "ready"
    /\ UNCHANGED <<defined, out, calls, mutations, lastArg, greeted>>
get_initial_courses_return_shallow ==
    /\ pc = "line13"
    /\ dicts' = IF dicts = <<>> THEN InitialCourses ELSE dicts
    /\ lists' = Append(lists, <<1, 2>>)
    /\ ret' = [status |-> "ok", kind |-> "list", value |-> Len(lists) + 1]
    /\ returned' = Append(returned, [ref |-> Len(lists) + 1, val |-> Deref(lists', dicts', Len(lists) + 1)])
    /\ lastOp' = "get_initial_courses"
    /\ pc' = "ready"
    /\ UNCHANGED <<defined, out, calls, mutations, lastArg, greeted>>
get_initial_courses_return ==
    /\ pc = "line13"
    /\ dicts' = dicts \o InitialCourses
    /\ lists' = Append(lists, <<Len(dicts) + 1, Len(dicts) + 2>>)
    /\ ret' = [status |-> "ok", kind |-> "list", value |-> Len(lists) + 1]
    /\ returned' = Append(returned, [ref |-> Len(lists) + 1, val |-> Deref(lists', dicts', Len(lists) + 1)])
    /\ lastOp' = "get_initial_courses"
    /\ pc' = "ready"
    /\ UNCHANGED <<defined, out, calls, mutations, lastArg, greeted>>

\* ---- the host mutates what it was handed --------------------------------
RemoveAt(s, j) == [i \in 1..(Len(s) - 1) |-> IF i < j THEN s[i] ELSE s[i + 1]]

\* the host removes a record from a list it got
host_removes_record ==
    /\ pc = "ready"
    /\ Steps < MaxSteps
    /\ \E r \in 1..Len(returned) :
         \E j \in 1..Len(lists[returned[r].ref]) :
            lists' = [lists EXCEPT ![returned[r].ref] = RemoveAt(@, j)]
    /\ mutations' = mutations + 1
    /\ lastOp' = "host_mutation"
    /\ UNCHANGED <<pc, defined, out, dicts, calls, lastArg, ret, returned, greeted>>

\* the host changes the id of a record of a list it got
host_changes_id ==
    /\ pc = "ready"
    /\ Steps < MaxSteps
    /\ \E r \in 1..Len(returned) :
         \E j \in 1..Len(lists[returned[r].ref]) :
            dicts' = [dicts EXCEPT ![lists[returned[r].ref][j]].id = MutatedId]
    /\ mutations' = mutations + 1
    /\ lastOp' = "host_mutation"
    /\ UNCHANGED <<pc, defined, out, lists, calls, lastArg, ret, returned, greeted>>

Next ==
    \/ load_import_js
    \/ load_import_js_fails
    \/ load_print_banner
    \/ load_def_greet
    \/ load_def_get_initial_courses
    \/ host_calls_greet
    \/ host_calls_get_initial_courses
    \/ get_initial_courses_print
    \/ get_initial_courses_return
    \/ host_removes_record
    \/ host_changes_id

Spec == Init /\ [][Next]_vars

\* a call in progress runs to its end: the interpreter is synchronous
FairSpec ==
    /\ Init
    /\ [][Next]_vars
    /\ WF_vars(get_initial_courses_print)
    /\ WF_vars(get_initial_courses_return)

\* ==== properties ==========================================================

\* the text the greeting is expected to carry, written out
ExpectedHello == <<"H", "e", "l", "l", "o", ",", " ">>

ExpectedFrom == <<",", " ", "f", "r", "o", "m", " ", "P", "y", "t", "h", "o", "n", "!">>

AdaGreeting ==
    <<"H", "e", "l", "l", "o", ",", " ", "A", "d", "a", ",", " ",
      "f", "r", "o", "m", " ", "P", "y", "t", "h", "o", "n", "!">>

\* C1: every greet(name), the empty name included, returns exactly
\* "Hello, " + name + ", from Python!"; greet("Ada") is "Hello, Ada, from Python!".
C1_GreetFormat ==
    \A p \in greeted :
        /\ p[2].value = ExpectedHello \o p[1] \o ExpectedFrom
        /\ (p[1] = <<"A", "d", "a">> => p[2].value = AdaGreeting)

C1_Witness ==
    /\ lastOp = "greet"
    /\ lastArg = <<"A", "d", "a">>
    /\ ret.value = AdaGreeting
    /\ \E p \in greeted : p[1] = <<>>

Contains(s, sub) ==
    \E i \in 0..(Len(s) - Len(sub)) : SubSeq(s, i + 1, i + Len(sub)) = sub

\* C2: the output of every greet(name) is non-empty and contains name as a
\* contiguous substring.
C2_GreetContainsName ==
    \A p \in greeted :
        /\ Len(p[2].value) > 0
        /\ Contains(p[2].value, p[1])

C2_Witness ==
    /\ lastOp = "greet"
    /\ Len(lastArg) = 2
    /\ Contains(ret.value, lastArg)

\* C3: after any earlier calls to greet and get_initial_courses, every call to
\* get_initial_courses returns the same ordered two-element list: first record
\* id 1, subject "TEST101", credited_units 3.0; second record id 2, subject
\* "PYD200", credited_units 1.0.
C3_AccessorIdempotent ==
    /\ \A i \in DOMAIN returned :
        /\ Len(returned[i].val) = 2
        /\ returned[i].val[1].id = 1
        /\ returned[i].val[1].subject = "TEST101"
        /\ returned[i].val[1].credited_units = 30
        /\ returned[i].val[2].id = 2
        /\ returned[i].val[2].subject = "PYD200"
        /\ returned[i].val[2].credited_units = 10
    /\ \A i, j \in DOMAIN returned : returned[i].val = returned[j].val

C3_Witness ==
    /\ Len(returned) >= 2
    /\ calls.greet >= 1
    /\ lastOp = "get_initial_courses"

NumDiag(o) == Cardinality({i \in DOMAIN o : o[i] = "Python: get_initial_courses called"})

\* C4: every invocation of get_initial_courses emits exactly one diagnostic
\* message, and emits it before the call returns; after n invocations the
\* channel holds exactly n such messages.
C4_OneDiagPerCall ==
    /\ pc = "line12" => NumDiag(out) = calls.get_initial_courses - 1
    /\ pc # "line12" => NumDiag(out) = calls.get_initial_courses
    /\ pc = "line13" => Len(returned) = NumDiag(out) - 1
    /\ pc \notin {"line12", "line13"} => Len(returned) = NumDiag(out)

C4_Witness ==
    /\ pc = "ready"
    /\ calls.get_initial_courses = 2
    /\ NumDiag(out) = 2
    /\ Len(returned) = 2

Addresses(ref) == {lists[ref][k] : k \in DOMAIN lists[ref]}

\* C5: the list is built anew on each call and shares no object with the list
\* of another call; after the host removes a record from a returned list or
\* changes a record's id, every later call still returns the original two
\* records.
C5_FreshListEachCall ==
    /\ \A i \in DOMAIN returned :
        returned[i].val =
            << [id |-> 1, subject |-> "TEST101", subject_title |-> "Introduction to Testing", credited_units |-> 30],
               [id |-> 2, subject |-> "PYD200", subject_title |-> "Pyodide Basics", credited_units |-> 10] >>
    /\ \A i, j \in DOMAIN returned :
        i # j => /\ returned[i].ref # returned[j].ref
                 /\ Addresses(returned[i].ref) \cap Addresses(returned[j].ref) = {}

C5_Witness ==
    /\ lastOp = "get_initial_courses"
    /\ pc = "ready"
    /\ mutations > 0
    /\ Len(returned) >= 2
    /\ Deref(lists, dicts, returned[1].ref) # returned[1].val

\* C6: a call to greet emits nothing on the output channel and changes
\* nothing that a later call to greet or get_initial_courses depends on.
C6_GreetNoSideEffects ==
    [][calls'.greet # calls.greet =>
        /\ out' = out
        /\ dicts' = dicts
        /\ lists' = lists
        /\ defined' = defined
        /\ returned' = returned
        /\ pc' = pc]_vars

C6_Witness ==
    /\ calls.greet >= 1
    /\ lastOp = "get_initial_courses"
    /\ Len(returned) >= 1
    /\ Len(out) = 1 + Len(returned)

CourseFields == {"id", "subject", "subject_title", "credited_units"}

\* C7: every record returned by get_initial_courses has exactly the fields
\* id, subject, subject_title and credited_units, and the ids of one returned
\* list are pairwise distinct.
C7_RecordShape ==
    \A i \in DOMAIN returned :
        /\ \A k \in DOMAIN returned[i].val : DOMAIN returned[i].val[k] = CourseFields
        /\ \A k, m \in DOMAIN returned[i].val :
            k # m => returned[i].val[k].id # returned[i].val[m].id

C7_Witness ==
    /\ Len(returned) >= 1
    /\ Len(returned[1].val) = 2
    /\ DOMAIN returned[1].val[2] = CourseFields

\* C8: neither function fails: every greet(name), the empty name included,
\* ends with a string result, and every call of get_initial_courses that has
\* started ends with a list result; no call ends in an error or blocks.
C8_NeverFails ==
    /\ [](\A p \in greeted : p[2].status = "ok" /\ p[2].kind = "str" /\ p[2].value \in Seq(STRING))
    /\ [](ret.status \in {"none", "ok"})
    /\ [](lastOp = "get_initial_courses" => ret.kind = "list" /\ ret.value \in DOMAIN lists)
    /\ (pc \in {"line12", "line13"}) ~> (pc = "ready" /\ lastOp = "get_initial_courses" /\ ret.status = "ok")

C8_Witness ==
    /\ pc = "ready"
    /\ \E p \in greeted : p[1] = <<>> /\ p[2].status = "ok"
    /\ Len(returned) >= 1

NumBanner(o) == Cardinality({i \in DOMAIN o : o[i] = "Python main.py loaded successfully via Pyodide!"})

\* C9: loading emits the banner exactly once, after the import of js has
\* succeeded and before any call can be made; from then on the output channel
\* is the banner followed only by accessor diagnostics, one per accessor call.
C9_BannerFirst ==
    /\ pc \in {"line1", "line3", "import_error"} => out = <<>>
    /\ out # <<>> => "js" \in defined
    /\ pc \notin {"line1", "line3", "import_error"} =>
        /\ NumBanner(out) = 1
        /\ out[1] = "Python main.py loaded successfully via Pyodide!"
        /\ \A i \in 2..Len(out) : out[i] = "Python: get_initial_courses called"
        /\ Len(out) = 1 + calls.get_initial_courses - (IF pc = "line12" THEN 1 ELSE 0)
    /\ Steps > 0 => NumBanner(out) = 1

C9_Witness ==
    /\ Len(out) = 3
    /\ out[1] = "Python main.py loaded successfully via Pyodide!"
    /\ calls.get_initial_courses = 2
    /\ calls.greet = 1

\* C10: greet(a) = greet(b) exactly when a = b, whatever calls came before.
C10_GreetInjective ==
    \A p, q \in greeted : (p[1] = q[1]) <=> (p[2].value = q[2].value)

C10_Witness ==
    /\ \E p, q \in greeted : p[1] = <<"A">> /\ q[1] = <<"a">> /\ p[2] # q[2]
    /\ Len(returned) >= 1

====
